---- MODULE Spec2Model ----
(***************************************************************************)
(* Model of docs/docs/tutorials/pdf_qa.ipynb: a notebook whose code cells  *)
(* run top to bottom in one kernel.  The notebook's globals (docs, splits, *)
(* vectorstore, retriever, results, os.environ) are the state; every code  *)
(* cell, and every library call inside the two cells that chain several    *)
(* calls, is one action.  An exception stops the run (no cell has a        *)
(* try/except).                                                            *)
(*                                                                         *)
(* Text is a sequence of one-character strings.  The library code the      *)
(* notebook calls (PyPDFLoader, RecursiveCharacterTextSplitter, Chroma,    *)
(* create_stuff_documents_chain, create_retrieval_chain) is not part of    *)
(* the notebook; it is modelled after the behaviour of those callables     *)
(* with the arguments the notebook passes.  The services behind them (the  *)
(* PDF text extraction, the embedding and similarity ranking, the chat     *)
(* model) are nondeterministic choices.                                    *)
(***************************************************************************)
EXTENDS Integers, Sequences, FiniteSets, TLC

\* ------------------------------------------------------------------ bounds

\* Largest number of pages of the PDF in the pipeline specification.
MaxPages == 2

\* Longest page text in the splitter specification.
MaxTextLen == 5

\* ------------------------------------------------------------ text helpers

None == "None"

NL == "\n"

Whitespace == {" ", NL}

Chars == {"a", " ", NL}

Max(a, b) == IF a >= b THEN a ELSE b

Min(a, b) == IF a <= b THEN a ELSE b

\* All texts over Chars of length at most n.
TextsUpTo(n) == UNION {[1..k -> Chars] : k \in 0..n}

RECURSIVE lstrip(_)
lstrip(s) ==
    IF s # <<>> /\ Head(s) \in Whitespace THEN lstrip(Tail(s)) ELSE s

RECURSIVE rstrip(_)
rstrip(s) ==
    IF s # <<>> /\ s[Len(s)] \in Whitespace
    THEN rstrip(SubSeq(s, 1, Len(s) - 1))
    ELSE s

\* str.strip(): leading and trailing whitespace removed.
strip(s) == rstrip(lstrip(s))

\* separator.join(pieces)
RECURSIVE join(_, _)
join(separator, pieces) ==
    IF pieces = <<>> THEN <<>>
    ELSE IF Len(pieces) = 1 THEN pieces[1]
    ELSE pieces[1] \o separator \o join(separator, Tail(pieces))

\* text[i:] starts with sep (sep not empty).
MatchAt(text, sep, i) ==
    /\ i + Len(sep) - 1 <= Len(text)
    /\ SubSeq(text, i, i + Len(sep) - 1) = sep

\* re.search(re.escape(sep), text) for a non-empty sep.
Found(text, sep) == \E i \in 1..Len(text) : MatchAt(text, sep, i)

\* sub occurs in text as a contiguous part starting at position p (1-based).
OccursAt(text, sub, p) ==
    /\ p >= 1
    /\ p + Len(sub) - 1 <= Len(text)
    /\ SubSeq(text, p, p + Len(sub) - 1) = sub

\* ------------------------------------------- RecursiveCharacterTextSplitter

\* chunk_size=1000, scaled with the page texts: 1000 -> 3 characters.
chunk_size == 3

\* chunk_overlap=200, scaled: 200 -> 1 character.
chunk_overlap == 1

\* Faulty variant: the splitter constructed with a larger chunk_size.
text_splitter_oversized ==
    [chunk_size |-> chunk_size + 1, chunk_overlap |-> chunk_overlap]

\* text_splitter = RecursiveCharacterTextSplitter(chunk_size=1000,
\*                                                chunk_overlap=200)
text_splitter == [chunk_size |-> chunk_size, chunk_overlap |-> chunk_overlap]

\* The splitter's default separators ["\n\n", "\n", " ", ""].
separators == << <<NL, NL>>, <<NL>>, <<" ">>, <<>> >>

\* re.split("(sep)", text) regrouped with keep_separator=True: the first piece
\* is the text before the first match, every later piece starts with the
\* separator.  cur is the piece being read, i the next position.
RECURSIVE ScanPieces(_, _, _, _)
ScanPieces(text, sep, i, cur) ==
    IF i > Len(text) THEN <<cur>>
    ELSE IF MatchAt(text, sep, i)
         THEN <<cur>> \o ScanPieces(text, sep, i + Len(sep), sep)
         ELSE ScanPieces(text, sep, i + 1, Append(cur, text[i]))

\* _split_text_with_regex(text, separator, keep_separator=True): list(text)
\* for the empty separator; empty pieces are dropped.
split_text_with_regex(text, sep) ==
    LET pieces == IF sep = <<>>
                  THEN [i \in 1..Len(text) |-> <<text[i]>>]
                  ELSE ScanPieces(text, sep, 1, <<>>)
    IN  SelectSeq(pieces, LAMBDA p : p # <<>>)

\* _join_docs: the pieces joined and stripped (strip_whitespace=True); None
\* when nothing is left.
join_docs(pieces, separator) ==
    LET t == strip(join(separator, pieces))
    IN  IF t = <<>> THEN None ELSE t

AddDoc(out, doc) == IF doc = None THEN out ELSE Append(out, doc)

SepLen(separator, n, least) == IF n > least THEN Len(separator) ELSE 0

\* The while loop of _merge_splits: drop pieces from the front of current_doc
\* until what is kept fits in chunk_overlap and leaves room for the next piece.
RECURSIVE PopFront(_, _, _, _)
PopFront(current_doc, total, len, separator) ==
    IF \/ total > text_splitter.chunk_overlap
       \/ /\ total + len + SepLen(separator, Len(current_doc), 0) > text_splitter.chunk_size
          /\ total > 0
    THEN PopFront(Tail(current_doc),
                  total - (Len(Head(current_doc))
                           + SepLen(separator, Len(current_doc), 1)),
                  len, separator)
    ELSE [current_doc |-> current_doc, total |-> total]

\* _merge_splits(splits, separator): the for loop from piece i on.
RECURSIVE MergeFrom(_, _, _, _, _, _)
MergeFrom(pieces, separator, i, out, current_doc, total) ==
    IF i > Len(pieces) THEN AddDoc(out, join_docs(current_doc, separator))
    ELSE
      LET d == pieces[i]
          len == Len(d)
          over == total + len + SepLen(separator, Len(current_doc), 0)
                      > text_splitter.chunk_size
          flush == over /\ Len(current_doc) > 0
          out1 == IF flush THEN AddDoc(out, join_docs(current_doc, separator))
                  ELSE out
          kept == IF flush THEN PopFront(current_doc, total, len, separator)
                  ELSE [current_doc |-> current_doc, total |-> total]
          cd == Append(kept.current_doc, d)
      IN  MergeFrom(pieces, separator, i + 1, out1, cd,
                    kept.total + len + SepLen(separator, Len(cd), 1))

merge_splits(pieces, separator) == MergeFrom(pieces, separator, 1, <<>>, <<>>, 0)

\* The first separator of seps that is "" or occurs in the text, with the
\* separators after it (none after "").
RECURSIVE PickSeparator(_, _, _)
PickSeparator(text, seps, i) ==
    IF i > Len(seps) THEN [separator |-> seps[Len(seps)], rest |-> <<>>]
    ELSE IF seps[i] = <<>> THEN [separator |-> <<>>, rest |-> <<>>]
    ELSE IF Found(text, seps[i])
         THEN [separator |-> seps[i], rest |-> SubSeq(seps, i + 1, Len(seps))]
         ELSE PickSeparator(text, seps, i + 1)

\* RecursiveCharacterTextSplitter._split_text(text, separators): pieces
\* shorter than chunk_size are collected and merged, a longer piece is split
\* again with the remaining separators.
RECURSIVE split_text_rec(_, _)
RECURSIVE SplitLoop(_, _, _, _, _)
SplitLoop(pieces, rest, i, good, final) ==
    IF i > Len(pieces)
    THEN IF good # <<>> THEN final \o merge_splits(good, <<>>) ELSE final
    ELSE
      LET s == pieces[i] IN
      IF Len(s) < text_splitter.chunk_size
      THEN SplitLoop(pieces, rest, i + 1, Append(good, s), final)
      ELSE
        LET final1 == IF good # <<>> THEN final \o merge_splits(good, <<>>)
                      ELSE final
            final2 == IF rest = <<>> THEN Append(final1, s)
                      ELSE final1 \o split_text_rec(s, rest)
        IN  SplitLoop(pieces, rest, i + 1, <<>>, final2)

split_text_rec(text, seps) ==
    LET pick == PickSeparator(text, seps, 1)
    IN  SplitLoop(split_text_with_regex(text, pick.separator), pick.rest,
                  1, <<>>, <<>>)

\* text_splitter.split_text(text)
split_text(text) == split_text_rec(text, separators)

\* Page texts of the pipeline specification: an empty page, a page that fits
\* in one chunk, pages cut at a space and inside a word.
PageTexts ==
    { <<>>,
      <<"a", " ", "a">>,
      <<"a", "a", " ", "a", "a">>,
      <<"a", "a", "a", "a", "a">> }

\* A second page for the two-page PDFs of the splitter specification.
SecondPages == { <<"a", "a", " ", "a">> }

\* split_text tabulated over every page text of the two specifications (@@
\* makes the table explicit, so that each text is split once).
split_text_of ==
    [t \in TextsUpTo(MaxTextLen) \cup PageTexts \cup SecondPages |->
        split_text(t)] @@ <<>>

\* ---------------------------------------------------------------- documents

\* langchain_core Document(page_content=..., metadata=...)
Document(page_content, metadata) ==
    [page_content |-> page_content, metadata |-> metadata]

file_path == "../example_data/nke-10k-2023.pdf"

\* Faulty variant: pages numbered from 1.
load_pages_from_one(path, pages) ==
    [i \in 1..Len(pages) |->
        Document(pages[i], [source |-> path, page |-> i])]

\* PyPDFLoader(file_path).load() on a file whose pages hold the texts `pages`:
\* one Document per page, in page order, pages numbered from 0.
load(path, pages) ==
    [i \in 1..Len(pages) |->
        Document(pages[i], [source |-> path, page |-> i - 1])]

\* create_documents: one Document per chunk of the text, each with a copy of
\* the metadata of the document it was cut from.
create_documents(text, metadata) ==
    LET chunks == split_text_of[text]
    IN  [i \in 1..Len(chunks) |-> Document(chunks[i], metadata)]

\* text_splitter.split_documents(documents)
RECURSIVE split_documents(_)
split_documents(documents) ==
    IF documents = <<>> THEN <<>>
    ELSE create_documents(Head(documents).page_content,
                          Head(documents).metadata)
         \o split_documents(Tail(documents))

\* ------------------------------------------------------------ vector store

\* Chroma.from_documents(documents=..., embedding=...): a new collection
\* holding the documents' texts and metadata, in the order given.
from_documents(documents, embedding) ==
    [documents |-> documents, embedding |-> embedding]

\* The number of documents a similarity search returns (the library's k = 4,
\* scaled with the page texts).
k == 2

\* vectorstore.as_retriever()
as_retriever(store) == [search_type |-> "similarity", k |-> k]

\* The results a similarity search may return: min(k, n) different entries of
\* the collection in any order (the ranking is the embedding service's).
Rankings(n) ==
    {r \in [1..Min(k, n) -> 1..n] :
        \A i, j \in DOMAIN r : i # j => r[i] # r[j]}

\* --------------------------------------------------------- prompt and chain

Slot(name) == [slot |-> name]

Literal(text) == [text |-> text]

\* The notebook's system_prompt: the instructions, a blank line, {context}.
system_prompt ==
    << Literal("You are an assistant for question-answering tasks. ..."),
       Literal("\n\n"),
       Slot("context") >>

\* ChatPromptTemplate.from_messages([("system", system_prompt),
\*                                   ("human", "{input}")])
prompt == [system |-> system_prompt, human |-> << Slot("input") >>]

\* A template with every slot replaced by the value of its variable.
format(template, values) ==
    [i \in DOMAIN template |->
        IF "slot" \in DOMAIN template[i]
        THEN [value |-> values[template[i].slot]]
        ELSE template[i]]

format_messages(p, values) ==
    [system |-> format(p.system, values), human |-> format(p.human, values)]

\* create_stuff_documents_chain formats every document with "{page_content}"
\* and joins them with a blank line.
format_documents(documents) ==
    join(<<NL, NL>>, [i \in DOMAIN documents |-> documents[i].page_content])

\* What the question-answer chain sends to the model for the chain's
\* intermediate dict x (keys input, context).
stuff_documents_prompt(p, x) ==
    format_messages(p, [context |-> format_documents(x["context"]),
                        input |-> x["input"]])

question == "What was Nike's revenue in 2023?"

\* Faulty variant: the dict passed to invoke carries a second key.
invoke_input_with_history == [input |-> question, chat_history |-> <<>>]

\* The dict the notebook passes to rag_chain.invoke.
invoke_input == [input |-> question]

\* create_retrieval_chain: the input dict passed through, with the retrieved
\* documents assigned to "context" ...
assign_context(x, documents) == ("context" :> documents) @@ x

\* ... and then the question-answer chain's output assigned to "answer".
assign_answer(x, answer) == ("answer" :> answer) @@ x

\* -------------------------------------------------------------------- state

VARIABLES
    pc,           \* position in Program of the next step to run
    error,        \* "none", or the exception that stopped the run
    pdf,          \* the page texts of the file at file_path
    environ,      \* os.environ, restricted to the two API key variables
    names,        \* the notebook globals that are bound
    docs,         \* loader.load()
    llm,          \* ChatAnthropic(...)
    splits,       \* text_splitter.split_documents(docs)
    vectorstore,  \* Chroma.from_documents(...)
    retriever,    \* vectorstore.as_retriever()
    running,      \* the dict rag_chain.invoke is building
    results,      \* rag_chain.invoke(...)
    retrieved,    \* history: what the retriever returned to the chain
    sent,         \* history: the messages sent to the chat model
    getpassCalls, \* history: getpass.getpass calls per variable
    log           \* history: the steps completed, in order

vars == << pc, error, pdf, environ, names, docs, llm, splits, vectorstore,
           retriever, running, results, retrieved, sent, getpassCalls, log >>

\* Faulty variant: the cell that prints the context runs before the chain is invoked.
Program_show_before_invoke ==
    << "pip_pypdf", "load", "show_docs", "anthropic", "pip_chroma",
       "openai_key", "split", "index", "as_retriever", "build_chain",
       "show_content", "retrieve", "answer", "return", "show_metadata" >>

\* Faulty variant: the documents are indexed a second time after the retriever exists.
Program_reindex ==
    << "pip_pypdf", "load", "show_docs", "anthropic", "pip_chroma",
       "openai_key", "split", "index", "as_retriever", "index", "build_chain",
       "retrieve", "answer", "return", "show_content", "show_metadata" >>

\* The notebook's code cells in order; the cells that make several library
\* calls are listed call by call.
Program ==
    << "pip_pypdf", "load", "show_docs", "anthropic", "pip_chroma",
       "openai_key", "split", "index", "as_retriever", "build_chain",
       "retrieve", "answer", "return", "show_content", "show_metadata" >>

KeyVars == {"ANTHROPIC_API_KEY", "OPENAI_API_KEY"}

\* A key already exported in the environment, and one typed at the prompt.
ExportedKey == "sk-exported"

TypedKeys == {"sk-typed"}

\* The chat model's possible completions.
Answers == {"Nike's revenue was $51.2 billion.", "I don't know."}

\* The PDFs of the pipeline specification: 1..MaxPages pages.
PDFs == UNION {[1..n -> PageTexts] : n \in 1..MaxPages}

Environs == UNION {[present -> {ExportedKey}] : present \in SUBSET KeyVars}

Unbound == <<>>

Init ==
    /\ pc = 1
    /\ error = "none"
    /\ pdf \in PDFs
    /\ environ \in Environs
    /\ names = {}
    /\ docs = Unbound
    /\ llm = Unbound
    /\ splits = Unbound
    /\ vectorstore = Unbound
    /\ retriever = Unbound
    /\ running = Unbound
    /\ results = Unbound
    /\ retrieved = Unbound
    /\ sent = Unbound
    /\ getpassCalls = [v \in KeyVars |-> 0]
    /\ log = <<>>

\* Faulty variant: the run goes on after an exception.
At_after_error(step) ==
    /\ pc <= Len(Program)
    /\ Program[pc] = step

\* The run is at `step`: it is the next one and nothing has raised.
At(step) ==
    /\ error = "none"
    /\ pc <= Len(Program)
    /\ Program[pc] = step

Done(step) == log' = Append(log, step)

\* An unhandled exception: the cell stops, and the run with it.
Raise(exception) ==
    /\ error' = exception
    /\ UNCHANGED << pc, pdf, environ, names, docs, llm, splits, vectorstore,
                    retriever, running, results, retrieved, sent,
                    getpassCalls, log >>

Advance == pc' = pc + 1 /\ error' = error

\* ------------------------------------------------------------------- cells

\* %pip install -qU pypdf langchain_community
PipPypdf ==
    /\ At("pip_pypdf")
    /\ Advance
    /\ UNCHANGED << pdf, environ, names, docs, llm, splits, vectorstore,
                    retriever, running, results, retrieved, sent,
                    getpassCalls, log >>

\* docs = loader.load()
Load ==
    /\ At("load")
    /\ \/ /\ docs' = load(file_path, pdf)
          /\ names' = names \cup {"docs"}
          /\ Done("load")
          /\ Advance
          /\ UNCHANGED << pdf, environ, llm, splits, vectorstore, retriever,
                          running, results, retrieved, sent, getpassCalls >>
       \/ Raise("FileNotFoundError")

\* print(docs[0].page_content[0:100]); print(docs[0].metadata)
ShowDocs ==
    /\ At("show_docs")
    /\ IF "docs" \notin names THEN Raise("NameError")
       ELSE IF Len(docs) = 0 THEN Raise("IndexError")
       ELSE /\ Advance
            /\ UNCHANGED << pdf, environ, names, docs, llm, splits,
                            vectorstore, retriever, running, results,
                            retrieved, sent, getpassCalls, log >>

\* Faulty variant: the key is asked for whether or not it is set.
AlwaysAsk(var, env) == TRUE

\* if "<VAR>" not in os.environ:
NeedsKey(var, env) == var \notin DOMAIN env

\* if "<VAR>" not in os.environ: os.environ["<VAR>"] = getpass.getpass(...)
SetKey(var) ==
    IF NeedsKey(var, environ)
    THEN \E typed \in TypedKeys :
            /\ environ' = (var :> typed) @@ environ
            /\ getpassCalls' = [getpassCalls EXCEPT ![var] = @ + 1]
    ELSE UNCHANGED << environ, getpassCalls >>

\* ChatAnthropic(model="claude-3-sonnet-20240229", temperature=0): the client
\* reads its key from the environment when it is constructed.
ChatAnthropic(env) ==
    [model |-> "claude-3-sonnet-20240229", temperature |-> 0,
     api_key |-> env["ANTHROPIC_API_KEY"]]

\* OpenAIEmbeddings(): reads its key from the environment.
OpenAIEmbeddings(env) == [api_key |-> env["OPENAI_API_KEY"]]

\* The cell that sets ANTHROPIC_API_KEY and constructs llm.
Anthropic ==
    /\ At("anthropic")
    /\ \/ /\ SetKey("ANTHROPIC_API_KEY")
          /\ llm' = ChatAnthropic(environ')
          /\ names' = names \cup {"llm"}
          /\ Advance
          /\ UNCHANGED << pdf, docs, splits, vectorstore, retriever, running,
                          results, retrieved, sent, log >>
       \/ /\ NeedsKey("ANTHROPIC_API_KEY", environ)
          /\ Raise("StdinNotImplementedError")

\* %pip install langchain_chroma langchain_openai
PipChroma ==
    /\ At("pip_chroma")
    /\ Advance
    /\ UNCHANGED << pdf, environ, names, docs, llm, splits, vectorstore,
                    retriever, running, results, retrieved, sent,
                    getpassCalls, log >>

\* The cell that sets OPENAI_API_KEY.
OpenAIKey ==
    /\ At("openai_key")
    /\ \/ /\ SetKey("OPENAI_API_KEY")
          /\ Advance
          /\ UNCHANGED << pdf, names, docs, llm, splits, vectorstore,
                          retriever, running, results, retrieved, sent, log >>
       \/ /\ NeedsKey("OPENAI_API_KEY", environ)
          /\ Raise("StdinNotImplementedError")

\* Faulty variant: only the first page is split.
split_input_first_page == SubSeq(docs, 1, 1)

\* Faulty variant: the page texts are split without their metadata.
split_call_texts_only(documents) ==
    split_documents([i \in DOMAIN documents |->
                        Document(documents[i].page_content, <<>>)])

\* The documents the notebook hands to the splitter.
split_input == docs

\* The splitter method the notebook calls: split_documents.
split_call(documents) == split_documents(documents)

\* splits = text_splitter.split_documents(docs)
Split ==
    /\ At("split")
    /\ IF "docs" \notin names THEN Raise("NameError")
       ELSE /\ splits' = split_call(split_input)
            /\ names' = names \cup {"splits"}
            /\ Done("split")
            /\ Advance
            /\ UNCHANGED << pdf, environ, docs, llm, vectorstore, retriever,
                            running, results, retrieved, sent, getpassCalls >>

\* Faulty variant: the whole pages are indexed instead of the chunks.
index_input_pages == docs

\* The documents the notebook hands to Chroma.from_documents.
index_input == splits

\* vectorstore = Chroma.from_documents(documents=splits,
\*                                     embedding=OpenAIEmbeddings())
Index ==
    /\ At("index")
    /\ IF "splits" \notin names THEN Raise("NameError")
       ELSE \/ /\ vectorstore' = from_documents(index_input,
                                                OpenAIEmbeddings(environ))
               /\ names' = names \cup {"vectorstore"}
               /\ Done("index")
               /\ Advance
               /\ UNCHANGED << pdf, environ, docs, llm, splits, retriever,
                               running, results, retrieved, sent,
                               getpassCalls >>
            \/ Raise("EmbeddingError")

\* retriever = vectorstore.as_retriever()
AsRetriever ==
    /\ At("as_retriever")
    /\ IF "vectorstore" \notin names THEN Raise("NameError")
       ELSE /\ retriever' = as_retriever(vectorstore)
            /\ names' = names \cup {"retriever"}
            /\ Done("as_retriever")
            /\ Advance
            /\ UNCHANGED << pdf, environ, docs, llm, splits, vectorstore,
                            running, results, retrieved, sent, getpassCalls >>

\* prompt, question_answer_chain and rag_chain are constructed.
BuildChain ==
    /\ At("build_chain")
    /\ IF {"llm", "retriever"} \subseteq names
       THEN /\ names' = names \cup {"rag_chain"}
            /\ Advance
            /\ UNCHANGED << pdf, environ, docs, llm, splits, vectorstore,
                            retriever, running, results, retrieved, sent,
                            getpassCalls, log >>
       ELSE Raise("NameError")

\* rag_chain.invoke, first step: the retriever is called with x["input"].
Retrieve ==
    /\ At("retrieve")
    /\ IF "rag_chain" \notin names THEN Raise("NameError")
       ELSE \/ \E r \in Rankings(Len(vectorstore.documents)) :
                 /\ retrieved' =
                        [i \in DOMAIN r |-> vectorstore.documents[r[i]]]
                 /\ running' = assign_context(invoke_input, retrieved')
                 /\ Done("retrieve")
                 /\ Advance
                 /\ UNCHANGED << pdf, environ, names, docs, llm, splits,
                                 vectorstore, retriever, results, sent,
                                 getpassCalls >>
            \/ Raise("EmbeddingError")

\* rag_chain.invoke, second step: the question-answer chain formats the
\* prompt from the dict, sends it to the model and parses the reply.
Answer ==
    /\ At("answer")
    /\ IF "context" \notin DOMAIN running THEN Raise("KeyError")
       ELSE \/ \E a \in Answers :
                 /\ sent' = stuff_documents_prompt(prompt, running)
                 /\ running' = assign_answer(running, a)
                 /\ Done("answer")
                 /\ Advance
                 /\ UNCHANGED << pdf, environ, names, docs, llm, splits,
                                 vectorstore, retriever, results, retrieved,
                                 getpassCalls >>
            \/ Raise("APIError")

\* results = rag_chain.invoke(...): the call returns the dict.
Return ==
    /\ At("return")
    /\ results' = running
    /\ names' = names \cup {"results"}
    /\ Done("return")
    /\ Advance
    /\ UNCHANGED << pdf, environ, docs, llm, splits, vectorstore, retriever,
                    running, retrieved, sent, getpassCalls >>

\* print(results["context"][0].page_content)
ShowContent ==
    /\ At("show_content")
    /\ IF "results" \notin names THEN Raise("NameError")
       ELSE IF Len(results["context"]) = 0 THEN Raise("IndexError")
       ELSE /\ Advance
            /\ UNCHANGED << pdf, environ, names, docs, llm, splits,
                            vectorstore, retriever, running, results,
                            retrieved, sent, getpassCalls, log >>

\* print(results["context"][0].metadata)
ShowMetadata ==
    /\ At("show_metadata")
    /\ IF "results" \notin names THEN Raise("NameError")
       ELSE IF Len(results["context"]) = 0 THEN Raise("IndexError")
       ELSE /\ Advance
            /\ UNCHANGED << pdf, environ, names, docs, llm, splits,
                            vectorstore, retriever, running, results,
                            retrieved, sent, getpassCalls, log >>

Next ==
    \/ PipPypdf
    \/ Load
    \/ ShowDocs
    \/ Anthropic
    \/ PipChroma
    \/ OpenAIKey
    \/ Split
    \/ Index
    \/ AsRetriever
    \/ BuildChain
    \/ Retrieve
    \/ Answer
    \/ Return
    \/ ShowContent
    \/ ShowMetadata

Spec == Init /\ [][Next]_vars

\* ------------------------------------------- the splitter on every short text

\* One page holding any text of at most MaxTextLen characters, alone or
\* followed by a second page.
SplitPDFs ==
    {<<t>> : t \in TextsUpTo(MaxTextLen)}
        \cup {<<t, u>> : t \in TextsUpTo(MaxTextLen), u \in SecondPages}

InitSplit ==
    /\ pc = 1
    /\ error = "none"
    /\ pdf \in SplitPDFs
    /\ environ = [v \in KeyVars |-> ExportedKey]
    /\ names = {}
    /\ docs = Unbound
    /\ llm = Unbound
    /\ splits = Unbound
    /\ vectorstore = Unbound
    /\ retriever = Unbound
    /\ running = Unbound
    /\ results = Unbound
    /\ retrieved = Unbound
    /\ sent = Unbound
    /\ getpassCalls = [v \in KeyVars |-> 0]
    /\ log = <<>>

\* The notebook up to and including split_documents.
NextSplit ==
    \/ PipPypdf
    \/ Load
    \/ ShowDocs
    \/ Anthropic
    \/ PipChroma
    \/ OpenAIKey
    \/ Split

SplitSpec == InitSplit /\ [][NextSplit]_vars

\* ------------------------------------------------------------------ history

Has(step) == \E i \in DOMAIN log : log[i] = step

Count(step) == Cardinality({i \in DOMAIN log : log[i] = step})

Finished == pc > Len(Program)

\* ----------------------------------------------------------------------- C5

\* The chunks cut from the document d, in the order of splits.
ChunksOf(d) ==
    LET own == SelectSeq(splits, LAMBDA c : c.metadata = d.metadata)
    IN  [i \in DOMAIN own |-> own[i].page_content]

\* The characters lo..hi of the text lie in no chunk: allowed for whitespace
\* only, and not at all when strict.
GapOK(text, lo, hi, strict) ==
    \A j \in lo..hi : ~strict /\ text[j] \in Whitespace

\* The chunks i.. can be laid on the text in order: each is a contiguous part
\* of the text starting no earlier than the one before, shares at most
\* chunk_overlap characters with the one before (which ends at prevEnd), and
\* the characters between what is covered so far and the chunk are a gap.
RECURSIVE Laid(_, _, _, _, _, _, _)
Laid(text, chunks, i, prevStart, prevEnd, covered, strict) ==
    IF i > Len(chunks) THEN GapOK(text, covered + 1, Len(text), strict)
    ELSE \E p \in prevStart..Len(text) :
            /\ OccursAt(text, chunks[i], p)
            /\ prevEnd - p + 1 <= chunk_overlap
            /\ GapOK(text, covered + 1, p - 1, strict)
            /\ Laid(text, chunks, i + 1, p, p + Len(chunks[i]) - 1,
                    Max(covered, p + Len(chunks[i]) - 1), strict)

\* Every chunk belongs to one page, and the chunks follow the page order.
ChunksByPage ==
    /\ \A i \in DOMAIN splits : \E j \in DOMAIN docs :
          splits[i].metadata = docs[j].metadata
    /\ \A i, j \in DOMAIN splits :
          i < j => splits[i].metadata.page <= splits[j].metadata.page

SizedChunks == \A i \in DOMAIN splits : Len(splits[i].page_content) <= chunk_size

\* C5 as stated: after split_documents every chunk has at most chunk_size
\* characters, consecutive chunks of a page share at most chunk_overlap
\* characters, no chunk spans two pages, and the chunks of a page in order
\* cover every character of the page's text.
C5_CoverEveryCharacter ==
    Has("split") =>
        /\ SizedChunks
        /\ ChunksByPage
        /\ \A j \in DOMAIN docs :
              Laid(docs[j].page_content, ChunksOf(docs[j]), 1, 1, 0, 0, TRUE)

\* C5 amended: as above, but the chunks of a page cover the page's text up to
\* whitespace: every character that lies in no chunk is whitespace (the
\* splitter strips each chunk and drops the chunks that are left empty).
C5_FixedSizeOverlappingChunks ==
    Has("split") =>
        /\ SizedChunks
        /\ ChunksByPage
        /\ \A j \in DOMAIN docs :
              Laid(docs[j].page_content, ChunksOf(docs[j]), 1, 1, 0, 0, FALSE)

\* A page was cut into chunks that overlap (together they are longer than
\* the page) and another page lost whitespace between its chunks.
C5_Witness ==
    /\ Has("split")
    /\ Len(docs) = 2
    /\ \E j \in DOMAIN docs :
          /\ Len(ChunksOf(docs[j])) >= 2
          /\ Len(join(<<>>, ChunksOf(docs[j]))) > Len(docs[j].page_content)
    /\ \E j \in DOMAIN docs :
          /\ Len(ChunksOf(docs[j])) >= 2
          /\ Len(join(<<>>, ChunksOf(docs[j]))) < Len(docs[j].page_content)

\* ----------------------------------------------------------------------- C1

Range(f) == {f[i] : i \in DOMAIN f}

IsPrefix(a, b) == Len(a) <= Len(b) /\ a = SubSeq(b, 1, Len(a))

Contiguous(text, sub) == \E p \in 1..Len(text) : OccursAt(text, sub, p)

Blank(text) == \A i \in DOMAIN text : text[i] \in Whitespace

\* load, split, embed/index, retrieve, assemble the prompt and call the
\* model, return the result.
Steps == << "load", "split", "index", "retrieve", "answer", "return" >>

PipelineLog == SelectSeq(log, LAMBDA step : step \in Range(Steps))

\* The value that filled the {context} slot of the system message.
ContextSent ==
    LET i == CHOOSE i \in DOMAIN system_prompt :
                /\ "slot" \in DOMAIN system_prompt[i]
                /\ system_prompt[i].slot = "context"
    IN  sent.system[i].value

\* splits was cut from docs: every chunk is a part of a loaded page, and every
\* loaded page that is not blank has a chunk.
SplitsFromDocs ==
    /\ \A i \in DOMAIN splits : \E j \in DOMAIN docs :
          /\ splits[i].metadata = docs[j].metadata
          /\ Contiguous(docs[j].page_content, splits[i].page_content)
    /\ \A j \in DOMAIN docs :
          ~Blank(docs[j].page_content) =>
              \E i \in DOMAIN splits : splits[i].metadata = docs[j].metadata

\* C1: the steps complete in the order load, split, index, retrieve, answer,
\* return, each at most once and none before the one before it, and each
\* works on what the earlier steps produced: the splits are cut from docs,
\* the vector store holds the splits, the retriever returns entries of that
\* store, the prompt is assembled from the retrieved chunks, and the dict
\* returned is the one the chain built.
C1_FixedOrder ==
    /\ IsPrefix(PipelineLog, Steps)
    /\ Has("load") => docs = load(file_path, pdf)
    /\ Has("split") => SplitsFromDocs
    /\ Has("index") => vectorstore.documents = splits
    /\ Has("retrieve") =>
          /\ Range(retrieved) \subseteq Range(vectorstore.documents)
          /\ running["context"] = retrieved
    /\ Has("answer") => ContextSent = format_documents(retrieved)
    /\ Has("return") => results = running

\* A complete run over a two-page PDF that was cut into more chunks than pages.
C1_Witness ==
    /\ Has("return")
    /\ Len(docs) = 2
    /\ Len(splits) > Len(docs)
    /\ PipelineLog = Steps

\* ----------------------------------------------------------------------- C2

\* C2: the dict rag_chain.invoke returns has exactly the keys input, context
\* and answer; input is the question passed in, context the chunks the chain
\* retrieved and put in the prompt, answer a completion of the model.
C2_ResultRecord ==
    "results" \in names =>
        /\ DOMAIN results = {"input", "context", "answer"}
        /\ results["input"] = question
        /\ results["context"] = retrieved
        /\ ContextSent = format_documents(results["context"])
        /\ results["answer"] \in Answers

C2_Witness ==
    /\ "results" \in names
    /\ Len(results["context"]) = k
    /\ results["answer"] \in Answers

\* ----------------------------------------------------------------------- C3

\* C3: every chunk under results["context"] is a contiguous part of the text
\* of one loaded page and has that page's metadata.
C3_ContextFromPages ==
    "results" \in names =>
        \A i \in DOMAIN results["context"] : \E j \in DOMAIN docs :
            /\ results["context"][i].metadata = docs[j].metadata
            /\ Contiguous(docs[j].page_content,
                          results["context"][i].page_content)

\* The context holds a chunk of the second page that is shorter than the page.
C3_Witness ==
    /\ "results" \in names
    /\ \E i \in DOMAIN results["context"] :
          /\ results["context"][i].metadata = [source |-> file_path, page |-> 1]
          /\ Len(results["context"][i].page_content)
                < Len(docs[2].page_content)

\* ----------------------------------------------------------------------- C4

\* C4: load() returns one Document per page in page order: the i-th (from 0)
\* holds the text of page i, with source the file path and page i.
C4_OneDocumentPerPage ==
    "docs" \in names =>
        /\ Len(docs) = Len(pdf)
        /\ \A i \in 1..Len(pdf) :
              /\ docs[i].page_content = pdf[i]
              /\ docs[i].metadata = [source |-> file_path, page |-> i - 1]

C4_Witness ==
    /\ "docs" \in names
    /\ Len(docs) >= 2
    /\ docs[1].page_content # docs[2].page_content

\* ----------------------------------------------------------------------- C6

\* C6: the chunks under results["context"] are the ones the retriever
\* returned and the ones formatted into the {context} slot of the prompt sent
\* to the model; each is one of splits; the prompt holds nothing else but the
\* instructions and the question.
C6_SameChunks ==
    "results" \in names =>
        /\ results["context"] = retrieved
        /\ ContextSent = format_documents(results["context"])
        /\ Range(results["context"]) \subseteq Range(splits)
        /\ sent = format_messages(prompt,
                     [context |-> format_documents(results["context"]),
                      input |-> question])

\* A result with k chunks of which one is not a whole page.
C6_Witness ==
    /\ "results" \in names
    /\ Len(results["context"]) = k
    /\ \E i \in DOMAIN results["context"] :
          results["context"][i] \notin Range(docs)

\* ----------------------------------------------------------------------- C7

\* The scheduling of a run: the kernel runs the next cell as long as there is
\* one and nothing has raised.
FairSpec == Spec /\ WF_vars(Next)

LibraryErrors ==
    {"FileNotFoundError", "StdinNotImplementedError", "EmbeddingError",
     "APIError"}

Terminated == Finished \/ error # "none"

PosOf(step) == CHOOSE i \in DOMAIN Program : Program[i] = step

\* C8: once a call has raised nothing runs any more: the call is not made
\* again, no later step runs, and if it was load, split_documents,
\* from_documents or rag_chain.invoke that raised, there is no results record.
C8_ErrorsPropagate ==
    /\ [][error # "none" => UNCHANGED vars]_vars
    /\ [](error # "none" =>
            /\ ~Has(Program[pc])
            /\ pc <= PosOf("return") => "results" \notin names)

\* The model call raised after the retriever had returned.
C8_Witness ==
    /\ error = "APIError"
    /\ Has("retrieve")
    /\ "results" \notin names

\* ----------------------------------------------------------------------- C9

C10_PromptOnlyWhenMissing ==
    /\ [](\A v \in KeyVars :
            /\ getpassCalls[v] <= 1
            /\ v \in DOMAIN environ =>
                  /\ getpassCalls[v] = 0 => environ[v] = ExportedKey
                  /\ getpassCalls[v] = 1 => environ[v] \in TypedKeys
            /\ v \notin DOMAIN environ => getpassCalls[v] = 0)
    /\ [](/\ pc > PosOf("anthropic") => "ANTHROPIC_API_KEY" \in DOMAIN environ
          /\ pc > PosOf("openai_key") => "OPENAI_API_KEY" \in DOMAIN environ
          /\ "llm" \in names =>
                llm.api_key = environ["ANTHROPIC_API_KEY"]
          /\ "vectorstore" \in names =>
                vectorstore.embedding.api_key = environ["OPENAI_API_KEY"])
    /\ [][\A v \in KeyVars :
            /\ v \in DOMAIN environ =>
                  /\ v \in DOMAIN environ'
                  /\ environ'[v] = environ[v]
                  /\ getpassCalls'[v] = getpassCalls[v]
            /\ v \notin DOMAIN environ /\ v \in DOMAIN environ' =>
                  /\ getpassCalls'[v] = 1
                  /\ environ'[v] \in TypedKeys]_vars

\* One key was exported and kept, the other was missing and typed, and both
\* clients have been constructed.
C10_Witness ==
    /\ "vectorstore" \in names
    /\ "llm" \in names
    /\ getpassCalls["ANTHROPIC_API_KEY"] = 1
    /\ getpassCalls["OPENAI_API_KEY"] = 0
    /\ environ["OPENAI_API_KEY"] = ExportedKey
    /\ environ["ANTHROPIC_API_KEY"] \in TypedKeys

====
